---- MODULE Spec2Model ----
(***************************************************************************)
(* Model of the sEMG preprocessing stage (src/hyser/preprocessing.py:      *)
(* extend_signal, whiten_signal) and of the subplot-grid computation of     *)
(* the plotting helpers (src/semg_bss/plotting.py).                         *)
(*                                                                          *)
(* Arrays are records [ndim, rows, cols, d] with d a function over          *)
(* 0-based <<row, col>> pairs, as numpy indexes them.  Array elements are   *)
(* IEEE-754 doubles, modelled as exact integers extended with NaN and       *)
(* +/-Inf.  Buffers live in a heap (a sequence, a buffer's id being its     *)
(* index) so that aliasing between an argument and a result is visible.     *)
(***************************************************************************)
EXTENDS Integers, Sequences, FiniteSets, TLC

VARIABLES heap, call, fig

vars == <<heap, call, fig>>

----------------------------------------------------------------------------
(* Bounds of the model.                                                     *)

MaxCh == 2
MaxSamples == 3
MaxR == 2
MaxBuffers == 3
MaxPlots == 7
MaxCols == 6

----------------------------------------------------------------------------
(* Floating-point values.                                                   *)

Fin(n) == [k |-> "fin", v |-> n]
NaN == [k |-> "nan", v |-> 0]
Inf(s) == [k |-> "inf", v |-> s]

IsFinite(a) == a.k = "fin"

Sgn(n) == IF n < 0 THEN -1 ELSE IF n = 0 THEN 0 ELSE 1

Min(a, b) == IF a < b THEN a ELSE b
Max(a, b) == IF a > b THEN a ELSE b

Neg(a) == IF a.k = "nan" THEN NaN ELSE [k |-> a.k, v |-> -a.v]

Add(a, b) ==
    IF a.k = "nan" \/ b.k = "nan" THEN NaN
    ELSE IF a.k = "inf" /\ b.k = "inf" THEN (IF a.v = b.v THEN a ELSE NaN)
    ELSE IF a.k = "inf" THEN a
    ELSE IF b.k = "inf" THEN b
    ELSE Fin(a.v + b.v)

Mul(a, b) ==
    IF a.k = "nan" \/ b.k = "nan" THEN NaN
    ELSE IF a.k = "inf" \/ b.k = "inf"
         THEN (IF a.v = 0 \/ b.v = 0 THEN NaN ELSE Inf(Sgn(a.v) * Sgn(b.v)))
    ELSE Fin(a.v * b.v)

----------------------------------------------------------------------------
(* Arrays.                                                                  *)

\* The positions of an n x m array.
Idx(n, m) == (0 .. n - 1) \X (0 .. m - 1)

\* The n x m array holding e, a function over Idx(n, m).
Mat(n, m, e) == [ndim |-> 2, rows |-> n, cols |-> m, d |-> e]

\* np.zeros(shape=(n, m), dtype=float)
zeros(n, m) == Mat(n, m, [p \in Idx(n, m) |-> Fin(0)])

Empty == zeros(0, 0)

Ok(val) == [status |-> "ok", val |-> val]
Raise(err) == [status |-> err, val |-> Empty]

\* A slice bound k on an axis of length len: negative bounds count from the
\* end, and every bound is clamped to the axis.
SliceBound(k, len) == IF k < 0 THEN Max(len + k, 0) ELSE Min(k, len)

\* src[:, c0:c1], the bounds already clamped.
Cols(src, c0, c1) ==
    Mat(src.rows, Max(c1 - c0, 0),
        [p \in Idx(src.rows, Max(c1 - c0, 0)) |->
           LET i == p[1]
               j == p[2]
           IN  src.d[<<i, c0 + j>>]])

\* dst[r0:r1, c0:c1] = src, the bounds already clamped: src is broadcast to
\* the target's shape (an axis of src matches the target's or has length 1),
\* and the assignment raises ValueError otherwise.
SetBlock(dst, r0, r1, c0, c1, src) ==
    LET tr == Max(r1 - r0, 0)
        tc == Max(c1 - c0, 0)
    IN  IF (src.rows = tr \/ src.rows = 1) /\ (src.cols = tc \/ src.cols = 1)
        THEN Ok([dst EXCEPT !.d =
                   [p \in DOMAIN dst.d |->
                      IF p[1] >= r0 /\ p[1] < r0 + tr /\ p[2] >= c0 /\ p[2] < c0 + tc
                      THEN src.d[<<IF src.rows = 1 THEN 0 ELSE p[1] - r0,
                                   IF src.cols = 1 THEN 0 ELSE p[2] - c0>>]
                      ELSE dst.d[p]]])
        ELSE Raise("ValueError")

----------------------------------------------------------------------------
(* extend_signal                                                            *)

n_obs_ext_docstring(n_obs, r) == n_obs * r

n_obs_ext(n_obs, r) == n_obs * (r + 1)

CopyInputReversed(x_ext, x) ==
    SetBlock(x_ext, 0, SliceBound(x.rows, x_ext.rows), 0, x_ext.cols,
             Mat(x.rows, x.cols,
                 [p \in Idx(x.rows, x.cols) |->
                    LET i == p[1]
                        j == p[2]
                    IN  x.d[<<x.rows - 1 - i, j>>]]))

\* x_ext[0:n_obs] = x
CopyInput(x_ext, x) ==
    SetBlock(x_ext, 0, SliceBound(x.rows, x_ext.rows), 0, x_ext.cols, x)

DelayBlockAdvanced(x_ext, x, i) ==
    LET start_row == x.rows * (i + 1)
        stop_row == x.rows * (i + 2)
    IN  SetBlock(x_ext,
                 SliceBound(start_row, x_ext.rows), SliceBound(stop_row, x_ext.rows),
                 0, SliceBound(-(i + 1), x_ext.cols),
                 Cols(x, SliceBound(i + 1, x.cols), x.cols))

\* One pass of the loop body:
\*   x_ext[start_row:stop_row, i + 1:] = x[:, :-(i + 1)]
DelayBlock(x_ext, x, i) ==
    LET start_row == x.rows * (i + 1)
        stop_row == x.rows * (i + 2)
    IN  SetBlock(x_ext,
                 SliceBound(start_row, x_ext.rows), SliceBound(stop_row, x_ext.rows),
                 SliceBound(i + 1, x_ext.cols), x_ext.cols,
                 Cols(x, 0, SliceBound(-(i + 1), x.cols)))

\* for i in range(r), from pass i on; range(r) is empty when r <= 0.
RECURSIVE DelayLoop(_, _, _, _)
DelayLoop(x_ext, x, i, r) ==
    IF i >= r THEN Ok(x_ext)
    ELSE LET b == DelayBlock(x_ext, x, i)
         IN  IF b.status = "ok" THEN DelayLoop(b.val, x, i + 1, r) ELSE b

extend_signal(x, r) ==
    LET n_obs == x.rows
        n_samples == x.cols
        ext == n_obs_ext(n_obs, r)
    IN  IF ext < 0
        THEN Raise("ValueError")   \* np.zeros: negative dimensions
        ELSE LET c == CopyInput(zeros(ext, n_samples), x)
             IN  IF c.status # "ok" THEN c
                 ELSE IF r # 0 THEN DelayLoop(c.val, x, 0, r)
                 ELSE c

----------------------------------------------------------------------------
(* whiten_signal                                                            *)
(*                                                                          *)
(* Finite values are exact and carried in fixed units, so that no division  *)
(* or square root leaves the integers: a centred sample is held times       *)
(* n_samples, a covariance entry times n_samples^2 * (n_samples - 1), an    *)
(* eigenvalue in multiples of eps, an eigenvector entry times 5 and an      *)
(* entry of d times 6 * sqrt(eps).                                          *)

\* The sum of f[0 .. k-1].
RECURSIVE SumVals(_, _)
SumVals(f, k) == IF k = 0 THEN Fin(0) ELSE Add(SumVals(f, k - 1), f[k - 1])

\* a @ b
MatMul(a, b) ==
    Mat(a.rows, b.cols,
        [p \in Idx(a.rows, b.cols) |->
           LET i == p[1]
               j == p[2]
           IN  SumVals([k \in 0 .. a.cols - 1 |->
               Mul(a.d[<<i, k>>], b.d[<<k, j>>])], a.cols)])

\* a.T
Transpose(a) == Mat(a.cols, a.rows,
    [p \in Idx(a.cols, a.rows) |->
       LET i == p[1]
           j == p[2]
       IN  a.d[<<j, i>>]])

AllFinite(a) == \A p \in DOMAIN a.d : IsFinite(a.d[p])

\* np.mean(x, axis=1, keepdims=True), times n_samples: one column.
x_mean(x) ==
    Mat(x.rows, 1,
        [p \in Idx(x.rows, 1) |->
           LET i == p[1]
               j == p[2]
           IN  SumVals([k \in 0 .. x.cols - 1 |-> x.d[<<i, k>>]], x.cols)])

\* x - x_mean (x_mean broadcast along the samples), times n_samples.
x_center(x) ==
    Mat(x.rows, x.cols,
        [p \in Idx(x.rows, x.cols) |->
           LET i == p[1]
               j == p[2]
           IN  Add(Mul(Fin(x.cols), x.d[<<i, j>>]), Neg(x_mean(x).d[<<i, 0>>]))])

\* np.cov(x_center): the rows' products summed over the samples and divided
\* by n_samples - 1 (the rows are centred already, so removing their mean
\* again changes nothing).  With one sample the divisor is 0 and the factor
\* 1/0 is Inf.  The result is squeezed: one channel gives a 0-d array.
cov_mtx(xc) ==
    LET fact == IF xc.cols - 1 <= 0 THEN Inf(1) ELSE Fin(1)
        c == Mat(xc.rows, xc.rows,
            [p \in Idx(xc.rows, xc.rows) |->
               LET i == p[1]
                   j == p[2]
               IN  Mul(SumVals([k \in 0 .. xc.cols - 1 |->
                   Mul(xc.d[<<i, k>>], xc.d[<<j, k>>])],
                   xc.cols),
                   fact)])
    IN  IF xc.rows = 1 THEN [c EXCEPT !.ndim = 0] ELSE c

\* Centred channels that are certainly linearly dependent: no more samples
\* than channels, a constant channel, or two equal channels.
RankDeficient(xc) ==
    \/ xc.cols <= xc.rows
    \/ \E i \in 0 .. xc.rows - 1 : \A j \in 0 .. xc.cols - 1 : xc.d[<<i, j>>] = Fin(0)
    \/ \E i, k \in 0 .. xc.rows - 1 :
          i # k /\ \A j \in 0 .. xc.cols - 1 : xc.d[<<i, j>>] = xc.d[<<k, j>>]

\* Orthonormal bases the solver may return (entries times 5): the axes, and
\* the axes with the first two turned by the angle of the 3-4-5 triangle.
Axes(n) == Mat(n, n,
    [p \in Idx(n, n) |->
       LET i == p[1]
           j == p[2]
       IN  Fin(IF i = j THEN 5 ELSE 0)])

Turned(n) ==
    Mat(n, n,
        [p \in Idx(n, n) |->
           LET i == p[1]
               j == p[2]
           IN  Fin(IF i <= 1 /\ j <= 1
               THEN (IF i = j THEN 3 ELSE IF i = 0 THEN -4 ELSE 4)
               ELSE IF i = j THEN 5 ELSE 0)])

EighOk(n, e0, rest, V) ==
    [status |-> "ok",
     eig_vals |-> [i \in 0 .. n - 1 |-> Fin(IF i = 0 THEN e0 ELSE rest)],
     eig_vecs |-> V]

\* np.linalg.eigh(cov_mtx), the external symmetric eigensolver: every answer
\* it may give.  It refuses an array of fewer than 2 dimensions.  On a
\* matrix holding NaN or Inf it either fails to converge or answers NaN.
\* On a finite matrix it answers eigenvalues in ascending order, in
\* multiples of eps: the smallest is positive when the channels are
\* independent, and rounding noise of either sign (or exactly 0) when they
\* are dependent.
eigh(c, rank_deficient) ==
    IF c.ndim < 2
    THEN {[status |-> "LinAlgError", eig_vals |-> << >>, eig_vecs |-> Empty]}
    ELSE IF ~AllFinite(c)
    THEN {[status |-> "LinAlgError", eig_vals |-> << >>, eig_vecs |-> Empty],
          [status |-> "ok",
           eig_vals |-> [i \in 0 .. c.rows - 1 |-> NaN],
           eig_vecs |-> Mat(c.rows, c.rows, [p \in Idx(c.rows, c.rows) |-> NaN])]}
    ELSE {EighOk(c.rows, e0, 8, V) :
            e0 \in (IF rank_deficient THEN {-2, -1, 0, 3} ELSE {3, 8}),
            V \in {Axes(c.rows), Turned(c.rows)}}

eps == 1

\* The integer square root (exact on the squares the solver's answers give).
Isqrt(v) == CHOOSE s \in 0 .. v : s * s <= v /\ v < (s + 1) * (s + 1)

\* 1. / a**0.5, times 6: NaN for a negative a, Inf for a = 0.
InvSqrt(a) ==
    IF a.k = "nan" THEN NaN
    ELSE IF a.k = "inf" THEN (IF a.v > 0 THEN Fin(0) ELSE NaN)
    ELSE IF a.v < 0 THEN NaN
    ELSE IF a.v = 0 THEN Inf(1)
    ELSE Fin(6 \div Isqrt(a.v))

\* np.diag(1. / (eig_vals + eps)**0.5)
d(eig_vals, n) ==
    Mat(n, n,
        [p \in Idx(n, n) |->
           LET i == p[1]
               j == p[2]
           IN  IF i = j THEN InvSqrt(Add(eig_vals[i], Fin(eps))) ELSE Fin(0)])

\* eig_vecs @ d @ eig_vecs.T
white_mtx(eig_vecs, dm) == MatMul(MatMul(eig_vecs, dm), Transpose(eig_vecs))

\* whiten_signal, given the eigensolver's answer eig on cov_mtx.
whiten_signal(x, eig) ==
    IF eig.status # "ok"
    THEN [status |-> eig.status, x_white |-> Empty, white_mtx |-> Empty]
    ELSE LET xc == x_center(x)
             W == white_mtx(eig.eig_vecs, d(eig.eig_vals, eig.eig_vecs.rows))
         IN  [status |-> "ok", x_white |-> MatMul(W, xc), white_mtx |-> W]

----------------------------------------------------------------------------
(* The caller's side: signal matrices handed to the two operations.         *)

\* Distinct entries in every position.
Ramp(n, m) == Mat(n, m,
    [p \in Idx(n, m) |->
       LET i == p[1]
           j == p[2]
       IN  Fin(i * m + j + 1)])

\* Channel i holds the (i+1)-th powers of 1, 2, ...: linearly independent
\* channels once there are more samples than channels.
RECURSIVE Pow(_, _)
Pow(b, e) == IF e = 0 THEN 1 ELSE b * Pow(b, e - 1)

Powers(n, m) == Mat(n, m,
    [p \in Idx(n, m) |->
       LET i == p[1]
           j == p[2]
       IN  Fin(Pow(j + 1, i + 1))])

Signals ==
    UNION {{Ramp(n, m), Powers(n, m)} : n \in 1 .. MaxCh, m \in 1 .. MaxSamples}

NoCall == [op |-> "none", arg |-> 0, r |-> 0, status |-> "ok", out |-> <<>>]
NoFig == [fn |-> "none", n |-> 0, n_rows |-> 0, n_cols |-> 0, subplots |-> {},
          status |-> "ok"]

\* A buffer a call may be given: a signal matrix within the bounds.
IsSignal(b) ==
    /\ b.ndim = 2
    /\ b.rows >= 1 /\ b.rows <= MaxCh
    /\ b.cols >= 1 /\ b.cols <= MaxSamples

Init ==
    /\ heap \in {<<x>> : x \in Signals}
    /\ call = NoCall
    /\ fig = NoFig

x_ext_buffer_alias(h, b, r) == IF r = 0 THEN b ELSE Len(h) + 1

\* The buffer extend_signal writes: np.zeros allocates a new one.
x_ext_buffer(h, b, r) == Len(h) + 1

Store(h, id, val) == IF id \in DOMAIN h THEN [h EXCEPT ![id] = val] ELSE Append(h, val)

ExtendSignal(b, r) ==
    /\ Len(heap) < MaxBuffers
    /\ IsSignal(heap[b])
    /\ LET res == extend_signal(heap[b], r)
           id == x_ext_buffer(heap, b, r)
       IN  IF res.status = "ok"
           THEN /\ heap' = Store(heap, id, res.val)
                /\ call' = [op |-> "extend", arg |-> b, r |-> r,
                            status |-> "ok", out |-> <<id>>]
           ELSE /\ heap' = heap
                /\ call' = [op |-> "extend", arg |-> b, r |-> r,
                            status |-> res.status, out |-> <<>>]
    /\ UNCHANGED fig

WhitenSignal(b) ==
    /\ Len(heap) < MaxBuffers
    /\ IsSignal(heap[b])
    /\ LET xc == x_center(heap[b])
       IN  \E eig \in eigh(cov_mtx(xc), RankDeficient(xc)) :
             LET res == whiten_signal(heap[b], eig)
                 id == Len(heap) + 1
             IN  IF res.status = "ok"
                 THEN /\ heap' = heap \o <<res.x_white, res.white_mtx>>
                      /\ call' = [op |-> "whiten", arg |-> b, r |-> 0,
                                  status |-> "ok", out |-> <<id, id + 1>>]
                 ELSE /\ heap' = heap
                      /\ call' = [op |-> "whiten", arg |-> b, r |-> 0,
                                  status |-> res.status, out |-> <<>>]
    /\ UNCHANGED fig

Next ==
    \/ \E b \in DOMAIN heap : \E r \in -MaxR .. MaxR : ExtendSignal(b, r)
    \/ \E b \in DOMAIN heap : WhitenSignal(b)

Spec == Init /\ [][Next]_vars

----------------------------------------------------------------------------
(* plotting: the subplot grid of plot_signal, plot_correlation, raster_plot *)

n_rows_floor(n, n_cols) == n \div n_cols

\* mod = n % n_cols
\* n_rows = n // n_cols if mod == 0 else n // n_cols + mod
n_rows(n, n_cols) ==
    LET mod == n % n_cols
    IN  IF mod = 0 THEN n \div n_cols ELSE n \div n_cols + mod

\* for i in range(count): plt.subplot(rows, n_cols, i + 1), which raises
\* ValueError for an index outside 1 .. rows * n_cols; the figure holds the
\* subplots made until then.
Grid(fn, n, rows, n_cols, count) ==
    LET bad == {i \in 0 .. count - 1 : i + 1 < 1 \/ i + 1 > rows * n_cols}
    IN  [fn |-> fn, n |-> n, n_rows |-> rows, n_cols |-> n_cols,
         subplots |-> {i + 1 : i \in {k \in 0 .. count - 1 :
                                        \A b \in bad : k < b}},
         status |-> IF bad = {} THEN "ok" ELSE "ValueError"]

\* A single array or DataFrame is drawn on the current axes: no grid.
Single(fn) ==
    [fn |-> fn, n |-> 0, n_rows |-> 0, n_cols |-> 0, subplots |-> {},
     status |-> "ok"]

plot_signal(n_channels, n_cols) ==
    /\ fig' = Grid("plot_signal", n_channels, n_rows(n_channels, n_cols), n_cols,
                   n_channels)
    /\ UNCHANGED <<heap, call>>

\* array a list of n_plots arrays, title n_titles titles: zip stops at the
\* shorter of the two.
plot_correlation(is_list, n_plots, n_titles, n_cols) ==
    /\ fig' = IF is_list
              THEN Grid("plot_correlation", n_plots, n_rows(n_plots, n_cols), n_cols,
                        Min(n_plots, n_titles))
              ELSE Single("plot_correlation")
    /\ UNCHANGED <<heap, call>>

raster_plot(is_list, n_plots, n_titles, n_cols) ==
    /\ fig' = IF is_list
              THEN Grid("raster_plot", n_plots, n_rows(n_plots, n_cols), n_cols,
                        Min(n_plots, n_titles))
              ELSE Single("raster_plot")
    /\ UNCHANGED <<heap, call>>

InitPlot ==
    /\ heap = << >>
    /\ call = NoCall
    /\ fig = NoFig

NextPlot ==
    \/ \E n \in 1 .. MaxPlots : \E c \in 1 .. MaxCols : plot_signal(n, c)
    \/ \E l \in BOOLEAN : \E n \in 1 .. MaxPlots : \E t \in {1, n} :
         \E c \in 1 .. MaxCols : plot_correlation(l, n, t, c)
    \/ \E l \in BOOLEAN : \E n \in 1 .. MaxPlots : \E t \in {1, n} :
         \E c \in 1 .. MaxCols : raster_plot(l, n, t, c)

SpecPlot == InitPlot /\ [][NextPlot]_vars

----------------------------------------------------------------------------
(* The claims.                                                              *)

Arg == heap[call.arg]
Out(k) == heap[call.out[k]]

C4_NegativeRejected ==
    (call.op = "extend" /\ call.r < 0) => call.status # "ok"

\* C5: whiten_signal(X) returns X_white of X's shape and a square
\* n_channels x n_channels W for every channel count, one channel included.
\* Stated for finite X with at least two samples, where the covariance is
\* finite.
C5_WhitenShapes ==
    (call.op = "whiten" /\ AllFinite(Arg) /\ Arg.cols >= 2) =>
        /\ call.status = "ok"
        /\ Out(1).ndim = 2 /\ Out(1).rows = Arg.rows /\ Out(1).cols = Arg.cols
        /\ Out(2).ndim = 2 /\ Out(2).rows = Arg.rows /\ Out(2).cols = Arg.rows

\* C6: whiten_signal never returns a whitened signal or whitening matrix
\* holding NaN or Inf (a non-finite value ends the call in an error).
C6_NoNonFiniteReturned ==
    (call.op = "whiten" /\ call.status = "ok") =>
        AllFinite(Out(1)) /\ AllFinite(Out(2))

\* Equal within tolerance: NaN is close to nothing, itself included.
Close(a, b) == a.k # "nan" /\ b.k # "nan" /\ a = b

\* C7: whenever whiten_signal returns, W[i][j] equals W[j][i] within
\* tolerance for every pair of channels.
C7_Symmetric ==
    (call.op = "whiten" /\ call.status = "ok") =>
        \A i, j \in 0 .. Out(2).rows - 1 :
            Close(Out(2).d[<<i, j>>], Out(2).d[<<j, i>>])

\* The part of C7 the construction V * D * V-transposed gives: a returned W
\* with finite entries is symmetric.
SymmetricWhenFinite ==
    (call.op = "whiten" /\ call.status = "ok" /\ AllFinite(Out(2))) =>
        \A i, j \in 0 .. Out(2).rows - 1 : Out(2).d[<<i, j>>] = Out(2).d[<<j, i>>]

C10_GridHoldsPlots ==
    (fig.fn # "none" /\ fig.n >= 1) =>
        /\ fig.n_rows * fig.n_cols >= fig.n
        /\ fig.status = "ok"
        /\ \A i \in 0 .. fig.n - 1 : i + 1 >= 1 /\ i + 1 <= fig.n_rows * fig.n_cols
        /\ \A idx \in fig.subplots : idx >= 1 /\ idx <= fig.n_rows * fig.n_cols

\* n not divisible by n_cols and more plots than columns.
C10_Witness ==
    /\ fig.fn = "raster_plot" /\ fig.n = 5 /\ fig.n_cols = 3 /\ fig.n_rows = 3
    /\ fig.subplots = 1 .. 5


====
